---- MODULE Spec2Model ----
(***************************************************************************)
(* Model of the obruk-ai forecasting service (src/ai/app.py and            *)
(* src/ai/model.py): the module bootstrap, the /train/start handler and    *)
(* its /train alias, the background training worker, LSTMForecaster.train, *)
(* load and predict, and the /predict handler, interleaved at statement    *)
(* granularity.                                                            *)
(***************************************************************************)
EXTENDS Integers, FiniteSets, Sequences, TLC

(* ----------------------------- bounds --------------------------------- *)

\* Total number of /train/start (or /train) requests over a behaviour.
MaxStarts == 2

\* Largest sequence_length, forecast_steps and number of measurement rows
\* drawn below the configured ones when the training data path runs on its
\* own.
MaxSeqLen == 3
MaxForecast == 3
MaxRows == 8

\* Number of steps into which each half of the interval of a random draw
\* is divided.
DrawSteps == 2

(* ------------------------ program constants --------------------------- *)

\* AI_SEQUENCE_LENGTH default
sequence_length == 10

\* AI_FORECAST_STEPS default
forecast_steps == 3

\* margin added to sequence_length + forecast_steps in _train_worker
TrainMargin == 20

\* floor of the synthetic fallback length in _load_training_matrix
SyntheticFloor == 300

\* extra rows of the synthetic fallback over minimum_required
SyntheticExtra == 20

(* ------------------------------ threads ------------------------------- *)

\* Request threads serving /train/start and /train.
Reqs == {"r1", "r2"}

\* Request threads serving /predict.
Preds == {"p1"}

\* Job 0 is the module bootstrap (main thread); job j >= 1 is the worker
\* thread launched by the j-th acquisition of training_lock.
Jobs == 0 .. MaxStarts

Max(a, b) == IF a >= b THEN a ELSE b

(* --------------------------- value domains ---------------------------- *)

\* self.model: None, or a network of training generation gen.  Generation 0
\* is the artifact pair found on disk at startup; generation j >= 1 is the
\* network built by training job j.
NoModel == [gen |-> -1, trained |-> FALSE]

BuiltModel(j) == [gen |-> j, trained |-> FALSE]

LoadedModel(g) == [gen |-> g, trained |-> TRUE]

\* training_state["last_result"] = None
NoResult == [metrics |-> "None", rows_used |-> -1, mode |-> "None"]

\* "demo" if forecaster.is_demo_mode else "model"
ModeName(demo) == IF demo THEN "demo" ELSE "model"

\* training_state as set at import time.
InitialTrainingState ==
    [running |-> FALSE, started_at |-> 0, finished_at |-> 0,
     last_error |-> "None", last_result |-> NoResult]

\* No GET /train/status has been answered yet.
NoStatusResponse == [sent |-> FALSE, data |-> InitialTrainingState]

VARIABLES
    forecaster_none,     \* app.forecaster is None (also covers model_config)
    MODEL_IMPORT_ERROR,  \* app.MODEL_IMPORT_ERROR is not None
    model,               \* forecaster.model
    scaler,              \* forecaster.scaler: generation of its fit, -1 unfitted
    is_demo_mode,        \* forecaster.is_demo_mode
    model_file,          \* generation stored at model_path, -1 when absent
    scaler_file,         \* generation stored at scaler_path, -1 when absent
    training_lock,       \* training_lock.locked()
    training_state,      \* the training_state dict
    clock,               \* datetime.utcnow(), as a logical clock
    acq,                 \* number of successful training_lock.acquire calls
    released,            \* per acquisition: number of release() calls made for it
    release_error,       \* release() was called on an unlocked lock
    starts,              \* number of start requests received
    rpc,                 \* per start request thread: position in train_start
    rpayload,            \* per start request thread: kind of request body
    rjob,                \* per start request thread: acquisition it contended for
    rresp,               \* per start request thread: HTTP status returned
    wpc,                 \* per job: position of its thread
    wrows,               \* per job: len(matrix)
    wexc,                \* per job: str(exc) of the exception being handled
    wload,               \* per job: how its call of load() went: "none",
                         \* "started", "ok", "absent", "model_failed",
                         \* "scaler_failed"
    ppc,                 \* per predict thread: position
    ppayload,            \* per predict thread: kind of request body
    pkind,               \* per predict thread: kind of `sequence`
    pmodel,              \* per predict thread: the model used at line 156
    pscaler,             \* per predict thread: the scaler used at line 154
    pscaler2,            \* per predict thread: the scaler used at line 158
    presp,               \* per predict thread: outcome returned
    pcount,              \* per predict thread: len(predictions) returned
    status_response,     \* the last GET /train/status response
    hpc,                 \* health request thread: position
    hmode,               \* health request thread: local `mode`
    hloaded,             \* health request thread: local `model_loaded`
    prep,                \* a run of the training data path on its own
    demo                 \* a run of a demo generator on its own

fvars == <<forecaster_none, MODEL_IMPORT_ERROR, model, scaler, is_demo_mode>>
dvars == <<model_file, scaler_file>>
lvars == <<training_lock, acq, released, release_error>>
rvars == <<starts, rpc, rpayload, rjob, rresp>>
wvars == <<wpc, wrows, wexc, wload>>
pvars == <<ppc, ppayload, pkind, pmodel, pscaler, pscaler2, presp, pcount>>
svars == <<status_response>>
hvars == <<hpc, hmode, hloaded>>
ovars == <<svars, hvars, prep, demo>>
vars ==
    <<fvars, dvars, lvars, training_state, clock, rvars, wvars, pvars, ovars>>

\* The service answers requests once the module has been imported.
Serving == wpc[0] = "serving"

InitService ==
    /\ forecaster_none = TRUE
    /\ MODEL_IMPORT_ERROR = FALSE
    /\ model = NoModel
    /\ scaler = -1
    /\ is_demo_mode = TRUE
    /\ model_file \in {-1, 0}
    /\ scaler_file \in {-1, 0}
    /\ training_lock = FALSE
    /\ training_state = InitialTrainingState
    /\ clock = 0
    /\ acq = 0
    /\ released = [j \in Jobs |-> 0]
    /\ release_error = FALSE
    /\ starts = 0
    /\ rpc = [r \in Reqs |-> "idle"]
    /\ rpayload = [r \in Reqs |-> "none"]
    /\ rjob = [r \in Reqs |-> 0]
    /\ rresp = [r \in Reqs |-> 0]
    /\ wpc = [j \in Jobs |-> IF j = 0 THEN "l31" ELSE "none"]
    /\ wrows = [j \in Jobs |-> 0]
    /\ wexc = [j \in Jobs |-> "None"]
    /\ wload = [j \in Jobs |-> "none"]
    /\ ppc = [p \in Preds |-> "idle"]
    /\ ppayload = [p \in Preds |-> "none"]
    /\ pkind = [p \in Preds |-> "none"]
    /\ pmodel = [p \in Preds |-> NoModel]
    /\ pscaler = [p \in Preds |-> -1]
    /\ pscaler2 = [p \in Preds |-> -1]
    /\ presp = [p \in Preds |-> "none"]
    /\ pcount = [p \in Preds |-> 0]
    /\ status_response = NoStatusResponse
    /\ hpc = "idle"
    /\ hmode = "none"
    /\ hloaded = FALSE

\* The training data path at rest.
NoPrep ==
    [pc |-> "none", file |-> "absent", valid |-> 0, seq |-> 0, fc |-> 0,
     source |-> "none", T |-> 0, idx |-> 0, pairs |-> 0, error |-> "None"]

\* A reading: tds, temperature and moisture.
Reading(t, c, m) == [tds |-> t, temperature |-> c, moisture |-> m]

\* The demo generators at rest.
NoDemo == [pc |-> "none", seed |-> Reading(0, 0, 0), n |-> 0,
           reading |-> Reading(0, 0, 0)]

Init ==
    /\ InitService
    /\ prep = NoPrep
    /\ demo = NoDemo

(* ------------------- module bootstrap (app.py 30-44) ------------------ *)

\* Where a job continues when one of its statements raises: the bootstrap's
\* "except" at app.py 43 ends the import; a worker enters its "except" at
\* app.py 192.
RaisePc(j) == IF j = 0 THEN "serving" ELSE "l193"

\* Where a job continues when load() returns.
LoadReturnPc(j) == IF j = 0 THEN "serving" ELSE "l186"

\* app.py 31-41, failing: the import of model.py (or the construction of
\* ModelConfig / LSTMForecaster) raises, forecaster stays None.
bootstrap_import_fails ==
    /\ wpc[0] = "l31"
    /\ MODEL_IMPORT_ERROR' = TRUE
    /\ wpc' = [wpc EXCEPT ![0] = "serving"]
    /\ UNCHANGED <<forecaster_none, model, scaler, is_demo_mode>>
    /\ UNCHANGED <<dvars, lvars, training_state, clock, rvars, pvars, ovars>>
    /\ UNCHANGED <<wrows, wexc, wload>>

\* app.py 31-41 and model.py 39-43: the forecaster is constructed with an
\* unfitted scaler, no model and demo mode on; load() is called next.
bootstrap_import ==
    /\ wpc[0] = "l31"
    /\ forecaster_none' = FALSE
    /\ model' = NoModel
    /\ scaler' = -1
    /\ is_demo_mode' = TRUE
    /\ wpc' = [wpc EXCEPT ![0] = "l107"]
    /\ UNCHANGED MODEL_IMPORT_ERROR
    /\ UNCHANGED <<dvars, lvars, training_state, clock, rvars, pvars, ovars>>
    /\ UNCHANGED <<wrows, wexc, wload>>

(* ------------------ LSTMForecaster.load (model.py 105-118) ------------ *)

\* model.py 107-110: both paths are tested and the branch is taken.
load_l107(j) ==
    /\ wpc[j] = "l107"
    /\ IF model_file # -1 /\ scaler_file # -1
       THEN wpc' = [wpc EXCEPT ![j] = "l111"]
       ELSE wpc' = [wpc EXCEPT ![j] = "l116"]
    /\ wload' = [wload EXCEPT ![j] = "started"]
    /\ UNCHANGED <<fvars, dvars, lvars, training_state, clock, rvars, pvars, ovars>>
    /\ UNCHANGED <<wrows, wexc>>

\* model.py 111: self.model = load_model(model_path).
load_l111(j) ==
    /\ wpc[j] = "l111"
    /\ model_file # -1
    /\ model' = LoadedModel(model_file)
    /\ wpc' = [wpc EXCEPT ![j] = "l112"]
    /\ UNCHANGED <<forecaster_none, MODEL_IMPORT_ERROR, scaler, is_demo_mode>>
    /\ UNCHANGED <<dvars, lvars, training_state, clock, rvars, pvars, ovars>>
    /\ UNCHANGED <<wrows, wexc, wload>>

\* model.py 111, load_model raising (unreadable or vanished file): the
\* exception leaves load() with nothing assigned.
load_l111_raises(j) ==
    /\ wpc[j] = "l111"
    /\ wpc' = [wpc EXCEPT ![j] = RaisePc(j)]
    /\ wexc' = [wexc EXCEPT ![j] = "load_model"]
    /\ wload' = [wload EXCEPT ![j] = "model_failed"]
    /\ MODEL_IMPORT_ERROR' = (MODEL_IMPORT_ERROR \/ j = 0)
    /\ UNCHANGED <<forecaster_none, model, scaler, is_demo_mode>>
    /\ UNCHANGED <<dvars, lvars, training_state, clock, rvars, pvars, ovars>>
    /\ UNCHANGED wrows

\* model.py 112: self.scaler = joblib.load(scaler_path).
load_l112(j) ==
    /\ wpc[j] = "l112"
    /\ scaler_file # -1
    /\ scaler' = scaler_file
    /\ wpc' = [wpc EXCEPT ![j] = "l113"]
    /\ UNCHANGED <<forecaster_none, MODEL_IMPORT_ERROR, model, is_demo_mode>>
    /\ UNCHANGED <<dvars, lvars, training_state, clock, rvars, pvars, ovars>>
    /\ UNCHANGED <<wrows, wexc, wload>>

\* model.py 112, joblib.load raising: self.model was already assigned.
load_l112_raises(j) ==
    /\ wpc[j] = "l112"
    /\ wpc' = [wpc EXCEPT ![j] = RaisePc(j)]
    /\ wexc' = [wexc EXCEPT ![j] = "joblib.load"]
    /\ wload' = [wload EXCEPT ![j] = "scaler_failed"]
    /\ MODEL_IMPORT_ERROR' = (MODEL_IMPORT_ERROR \/ j = 0)
    /\ UNCHANGED <<forecaster_none, model, scaler, is_demo_mode>>
    /\ UNCHANGED <<dvars, lvars, training_state, clock, rvars, pvars, ovars>>
    /\ UNCHANGED wrows

\* model.py 113-114: self.is_demo_mode = False; return True.
load_l113(j) ==
    /\ wpc[j] = "l113"
    /\ is_demo_mode' = FALSE
    /\ wpc' = [wpc EXCEPT ![j] = LoadReturnPc(j)]
    /\ wload' = [wload EXCEPT ![j] = "ok"]
    /\ UNCHANGED <<forecaster_none, MODEL_IMPORT_ERROR, model, scaler>>
    /\ UNCHANGED <<dvars, lvars, training_state, clock, rvars, pvars, ovars>>
    /\ UNCHANGED <<wrows, wexc>>

\* model.py 116: self.model = None.
load_l116(j) ==
    /\ wpc[j] = "l116"
    /\ model' = NoModel
    /\ wpc' = [wpc EXCEPT ![j] = "l117"]
    /\ UNCHANGED <<forecaster_none, MODEL_IMPORT_ERROR, scaler, is_demo_mode>>
    /\ UNCHANGED <<dvars, lvars, training_state, clock, rvars, pvars, ovars>>
    /\ UNCHANGED <<wrows, wexc, wload>>

\* model.py 117-118: self.is_demo_mode = True; return False.
load_l117(j) ==
    /\ wpc[j] = "l117"
    /\ is_demo_mode' = TRUE
    /\ wpc' = [wpc EXCEPT ![j] = LoadReturnPc(j)]
    /\ wload' = [wload EXCEPT ![j] = "absent"]
    /\ UNCHANGED <<forecaster_none, MODEL_IMPORT_ERROR, model, scaler>>
    /\ UNCHANGED <<dvars, lvars, training_state, clock, rvars, pvars, ovars>>
    /\ UNCHANGED <<wrows, wexc>>

\* The whole of load(), one statement at a time.
load(j) ==
    \/ load_l107(j)
    \/ load_l111(j)
    \/ load_l111_raises(j)
    \/ load_l112(j)
    \/ load_l112_raises(j)
    \/ load_l113(j)
    \/ load_l116(j)
    \/ load_l117(j)

\* The artifact directory is emptied from outside the process (a redeploy
\* or a manual cleanup): both files disappear.
artifacts_removed ==
    /\ model_file # -1 \/ scaler_file # -1
    /\ model_file' = -1
    /\ scaler_file' = -1
    /\ UNCHANGED <<fvars, lvars, training_state, clock, rvars, wvars, pvars, ovars>>

(* ------------------ train_start (app.py 201-234) ---------------------- *)

\* Kinds of body of a start request: "ok" parses (absent or integer epochs
\* and batch_size); "bad" is a JSON body that app.py 216-217 cannot convert
\* to int, such as {"epochs": "ten"}.
StartPayloads == {"ok", "bad"}

\* app.py 201-202: a POST /train/start enters train_start.
train_start(r) ==
    /\ Serving
    /\ rpc[r] = "idle"
    /\ starts < MaxStarts
    /\ starts' = starts + 1
    /\ \E b \in StartPayloads : rpayload' = [rpayload EXCEPT ![r] = b]
    /\ rpc' = [rpc EXCEPT ![r] = "l203"]
    /\ UNCHANGED <<rjob, rresp>>
    /\ UNCHANGED <<fvars, dvars, lvars, training_state, clock, wvars, pvars, ovars>>

\* app.py 174-177: POST /train is an alias that calls train_start.
train(r) == train_start(r)

\* A variant of app.py 203-212 in which the slot is taken before the
\* availability of the engine stack is tested.
train_start_l203_after_acquire(r) ==
    /\ rpc[r] = "l203"
    /\ IF forecaster_none
       THEN /\ rpc' = [rpc EXCEPT ![r] = "done"]
            /\ rresp' = [rresp EXCEPT ![r] = 503]
            /\ training_lock' = TRUE
       ELSE /\ rpc' = [rpc EXCEPT ![r] = "l212"]
            /\ UNCHANGED <<rresp, training_lock>>
    /\ UNCHANGED <<starts, rpayload, rjob, acq, released, release_error>>
    /\ UNCHANGED <<fvars, dvars, training_state, clock, wvars, pvars, ovars>>

\* app.py 203-210: 503 when the engine stack is unavailable.
train_start_l203(r) ==
    /\ rpc[r] = "l203"
    /\ IF forecaster_none
       THEN /\ rpc' = [rpc EXCEPT ![r] = "done"]
            /\ rresp' = [rresp EXCEPT ![r] = 503]
       ELSE /\ rpc' = [rpc EXCEPT ![r] = "l212"]
            /\ UNCHANGED rresp
    /\ UNCHANGED <<starts, rpayload, rjob>>
    /\ UNCHANGED <<fvars, dvars, lvars, training_state, clock, wvars, pvars, ovars>>

\* Mutation: the acquire reports success whether or not the lock is held
\* (as a re-entrant lock would for its owner).
acquire_always(locked) == TRUE

\* The result of training_lock.acquire(blocking=False) on a lock whose
\* locked() is `locked`.
acquire_nonblocking(locked) == ~locked

\* app.py 212, acquire succeeded: the request now holds the training slot.
train_start_l212_acquired(r) ==
    /\ rpc[r] = "l212"
    /\ acquire_nonblocking(training_lock)
    /\ training_lock' = TRUE
    /\ acq' = acq + 1
    /\ rjob' = [rjob EXCEPT ![r] = acq + 1]
    /\ rpc' = [rpc EXCEPT ![r] = "l215"]
    /\ UNCHANGED <<released, release_error, starts, rpayload, rresp>>
    /\ UNCHANGED <<fvars, dvars, training_state, clock, wvars, pvars, ovars>>

\* Mutation: the reset of the job state (app.py 219, 221-223) is done before
\* the outcome of the acquire is acted upon, so a rejected start clears the
\* state of the running job.
train_start_l212_conflict_resets(r) ==
    /\ rpc[r] = "l212"
    /\ ~acquire_nonblocking(training_lock)
    /\ training_state' = [training_state EXCEPT !.running = TRUE,
                                                !.finished_at = 0,
                                                !.last_error = "None",
                                                !.last_result = NoResult]
    /\ rresp' = [rresp EXCEPT ![r] = 409]
    /\ rjob' = [rjob EXCEPT ![r] = acq]
    /\ rpc' = [rpc EXCEPT ![r] = "done"]
    /\ UNCHANGED <<starts, rpayload>>
    /\ UNCHANGED <<fvars, dvars, lvars, clock, wvars, pvars, ovars>>

\* app.py 212-213, acquire failed: 409 "Training already in progress.".
train_start_l212_conflict(r) ==
    /\ rpc[r] = "l212"
    /\ ~acquire_nonblocking(training_lock)
    /\ rresp' = [rresp EXCEPT ![r] = 409]
    /\ rjob' = [rjob EXCEPT ![r] = acq]
    /\ rpc' = [rpc EXCEPT ![r] = "done"]
    /\ UNCHANGED <<starts, rpayload>>
    /\ UNCHANGED <<fvars, dvars, lvars, training_state, clock, wvars, pvars, ovars>>

\* app.py 215-217: the body is read and epochs / batch_size converted with
\* int(); a body that does not convert raises out of the handler (Flask
\* answers 500) with training_lock still held.
train_start_l215(r) ==
    /\ rpc[r] = "l215"
    /\ IF rpayload[r] = "ok"
       THEN /\ rpc' = [rpc EXCEPT ![r] = "l219"]
            /\ UNCHANGED rresp
       ELSE /\ rpc' = [rpc EXCEPT ![r] = "done"]
            /\ rresp' = [rresp EXCEPT ![r] = 500]
    /\ UNCHANGED <<starts, rpayload, rjob>>
    /\ UNCHANGED <<fvars, dvars, lvars, training_state, clock, wvars, pvars, ovars>>

\* app.py 219: training_state["running"] = True.
train_start_l219(r) ==
    /\ rpc[r] = "l219"
    /\ training_state' = [training_state EXCEPT !.running = TRUE]
    /\ rpc' = [rpc EXCEPT ![r] = "l220"]
    /\ UNCHANGED <<starts, rpayload, rjob, rresp>>
    /\ UNCHANGED <<fvars, dvars, lvars, clock, wvars, pvars, ovars>>

\* app.py 220: training_state["started_at"] = utcnow().
train_start_l220(r) ==
    /\ rpc[r] = "l220"
    /\ clock' = clock + 1
    /\ training_state' = [training_state EXCEPT !.started_at = clock + 1]
    /\ rpc' = [rpc EXCEPT ![r] = "l221"]
    /\ UNCHANGED <<starts, rpayload, rjob, rresp>>
    /\ UNCHANGED <<fvars, dvars, lvars, wvars, pvars, ovars>>

\* app.py 221: training_state["finished_at"] = None.
train_start_l221(r) ==
    /\ rpc[r] = "l221"
    /\ training_state' = [training_state EXCEPT !.finished_at = 0]
    /\ rpc' = [rpc EXCEPT ![r] = "l222"]
    /\ UNCHANGED <<starts, rpayload, rjob, rresp>>
    /\ UNCHANGED <<fvars, dvars, lvars, clock, wvars, pvars, ovars>>

\* app.py 222: training_state["last_error"] = None.
train_start_l222(r) ==
    /\ rpc[r] = "l222"
    /\ training_state' = [training_state EXCEPT !.last_error = "None"]
    /\ rpc' = [rpc EXCEPT ![r] = "l223"]
    /\ UNCHANGED <<starts, rpayload, rjob, rresp>>
    /\ UNCHANGED <<fvars, dvars, lvars, clock, wvars, pvars, ovars>>

\* app.py 223: training_state["last_result"] = None.
train_start_l223(r) ==
    /\ rpc[r] = "l223"
    /\ training_state' = [training_state EXCEPT !.last_result = NoResult]
    /\ rpc' = [rpc EXCEPT ![r] = "l225"]
    /\ UNCHANGED <<starts, rpayload, rjob, rresp>>
    /\ UNCHANGED <<fvars, dvars, lvars, clock, wvars, pvars, ovars>>

\* app.py 225-234: the worker thread is started and the request answers
\* 200 {"running": true, ...}.
train_start_l225(r) ==
    /\ rpc[r] = "l225"
    /\ wpc' = [wpc EXCEPT ![rjob[r]] = "l182"]
    /\ rresp' = [rresp EXCEPT ![r] = 200]
    /\ rpc' = [rpc EXCEPT ![r] = "done"]
    /\ UNCHANGED <<starts, rpayload, rjob, wrows, wexc, wload>>
    /\ UNCHANGED <<fvars, dvars, lvars, training_state, clock, pvars, ovars>>

\* app.py 226, thread.start() raising RuntimeError ("can't start new
\* thread"): no worker exists, the handler raises and Flask answers 500.
train_start_l226_raises(r) ==
    /\ rpc[r] = "l225"
    /\ rresp' = [rresp EXCEPT ![r] = 500]
    /\ rpc' = [rpc EXCEPT ![r] = "done"]
    /\ UNCHANGED <<starts, rpayload, rjob>>
    /\ UNCHANGED <<fvars, dvars, lvars, training_state, clock, wvars, pvars, ovars>>

\* The response has been sent; the request thread serves the next request.
train_start_returns(r) ==
    /\ rpc[r] = "done"
    /\ rpc' = [rpc EXCEPT ![r] = "idle"]
    /\ rpayload' = [rpayload EXCEPT ![r] = "none"]
    /\ rjob' = [rjob EXCEPT ![r] = 0]
    /\ rresp' = [rresp EXCEPT ![r] = 0]
    /\ UNCHANGED starts
    /\ UNCHANGED <<fvars, dvars, lvars, training_state, clock, wvars, pvars, ovars>>

(* ------------- _load_training_matrix (app.py 75-105) ------------------ *)

\* Numbers of valid rows the measurements file may hold (0 also stands for
\* a missing file and for content that is not a list).
StoredRowChoices == {0, sequence_length + forecast_steps + TrainMargin}

\* len() of the matrix _load_training_matrix returns for `rows` valid rows.
LoadTrainingMatrixLen(rows, minimum_required) ==
    IF rows >= minimum_required
    THEN rows
    ELSE Max(SyntheticFloor, minimum_required + SyntheticExtra)

(* ------------------ _train_worker (app.py 180-198) -------------------- *)

\* Steps of job j that change only its own position and locals.
WorkerLocalFrame ==
    UNCHANGED <<fvars, dvars, lvars, training_state, clock, rvars, pvars, ovars>>

\* app.py 182-183: minimum_required is computed and the matrix loaded.
train_worker_l183(j) ==
    /\ wpc[j] = "l182"
    /\ \E rows \in StoredRowChoices :
          wrows' = [wrows EXCEPT ![j] =
                      LoadTrainingMatrixLen(rows,
                          sequence_length + forecast_steps + TrainMargin)]
    /\ wpc' = [wpc EXCEPT ![j] = "l62"]
    /\ UNCHANGED <<wexc, wload>>
    /\ WorkerLocalFrame

\* app.py 81, json.load raising on a measurements file that is not JSON.
train_worker_l183_raises(j) ==
    /\ wpc[j] = "l182"
    /\ wexc' = [wexc EXCEPT ![j] = "json.load"]
    /\ wpc' = [wpc EXCEPT ![j] = "l193"]
    /\ UNCHANGED <<wrows, wload>>
    /\ WorkerLocalFrame

(* -------- LSTMForecaster.train (model.py 60-65 and 80-103) ------------ *)

\* model.py 62-63: too few rows raise ValueError.
train_l62(j) ==
    /\ wpc[j] = "l62"
    /\ IF wrows[j] <= sequence_length + forecast_steps
       THEN /\ wexc' = [wexc EXCEPT ![j] = "Insufficient rows for training windows."]
            /\ wpc' = [wpc EXCEPT ![j] = "l193"]
       ELSE /\ wpc' = [wpc EXCEPT ![j] = "l65"]
            /\ UNCHANGED wexc
    /\ UNCHANGED <<wrows, wload>>
    /\ WorkerLocalFrame

\* model.py 65: self.scaler.fit_transform(data) refits the scaler object
\* in place.
train_l65(j) ==
    /\ wpc[j] = "l65"
    /\ scaler' = j
    /\ wpc' = [wpc EXCEPT ![j] = "l83"]
    /\ UNCHANGED <<forecaster_none, MODEL_IMPORT_ERROR, model, is_demo_mode>>
    /\ UNCHANGED <<dvars, lvars, training_state, clock, rvars, pvars, ovars>>
    /\ UNCHANGED <<wrows, wexc, wload>>

\* model.py 83: self.model = self.build_model(), a new untrained network.
\* A variant of model.py 83 in which building the network already clears
\* the demo flag.
train_l83_sets_mode(j) ==
    /\ wpc[j] = "l83"
    /\ model' = BuiltModel(j)
    /\ is_demo_mode' = FALSE
    /\ wpc' = [wpc EXCEPT ![j] = "l85"]
    /\ UNCHANGED <<forecaster_none, MODEL_IMPORT_ERROR, scaler>>
    /\ UNCHANGED <<dvars, lvars, training_state, clock, rvars, pvars, ovars>>
    /\ UNCHANGED <<wrows, wexc, wload>>

\* model.py 83: self.model = self.build_model().
train_l83(j) ==
    /\ wpc[j] = "l83"
    /\ model' = BuiltModel(j)
    /\ wpc' = [wpc EXCEPT ![j] = "l85"]
    /\ UNCHANGED <<forecaster_none, MODEL_IMPORT_ERROR, scaler, is_demo_mode>>
    /\ UNCHANGED <<dvars, lvars, training_state, clock, rvars, pvars, ovars>>
    /\ UNCHANGED <<wrows, wexc, wload>>

\* model.py 85-92: self.model.fit(...) trains the network in place.
train_l85(j) ==
    /\ wpc[j] = "l85"
    /\ model' = [model EXCEPT !.trained = TRUE]
    /\ wpc' = [wpc EXCEPT ![j] = "l95"]
    /\ UNCHANGED <<forecaster_none, MODEL_IMPORT_ERROR, scaler, is_demo_mode>>
    /\ UNCHANGED <<dvars, lvars, training_state, clock, rvars, pvars, ovars>>
    /\ UNCHANGED <<wrows, wexc, wload>>

\* model.py 85, fit raising (the engine may fail).
train_l85_raises(j) ==
    /\ wpc[j] = "l85"
    /\ wexc' = [wexc EXCEPT ![j] = "fit"]
    /\ wpc' = [wpc EXCEPT ![j] = "l193"]
    /\ UNCHANGED <<wrows, wload>>
    /\ WorkerLocalFrame

\* model.py 94-95: self.model.save(model_path).
train_l95(j) ==
    /\ wpc[j] = "l95"
    /\ model_file' = model.gen
    /\ wpc' = [wpc EXCEPT ![j] = "l96"]
    /\ UNCHANGED scaler_file
    /\ UNCHANGED <<fvars, lvars, training_state, clock, rvars, pvars, ovars>>
    /\ UNCHANGED <<wrows, wexc, wload>>

\* model.py 94-95, makedirs or save raising (the artifact store may fail).
train_l95_raises(j) ==
    /\ wpc[j] = "l95"
    /\ wexc' = [wexc EXCEPT ![j] = "save"]
    /\ wpc' = [wpc EXCEPT ![j] = "l193"]
    /\ UNCHANGED <<wrows, wload>>
    /\ WorkerLocalFrame

\* model.py 96: joblib.dump(self.scaler, scaler_path).
train_l96(j) ==
    /\ wpc[j] = "l96"
    /\ scaler_file' = scaler
    /\ wpc' = [wpc EXCEPT ![j] = "l97"]
    /\ UNCHANGED model_file
    /\ UNCHANGED <<fvars, lvars, training_state, clock, rvars, pvars, ovars>>
    /\ UNCHANGED <<wrows, wexc, wload>>

\* model.py 96, joblib.dump raising.
train_l96_raises(j) ==
    /\ wpc[j] = "l96"
    /\ wexc' = [wexc EXCEPT ![j] = "joblib.dump"]
    /\ wpc' = [wpc EXCEPT ![j] = "l193"]
    /\ UNCHANGED <<wrows, wload>>
    /\ WorkerLocalFrame

\* model.py 97-103: self.is_demo_mode = False and the metrics are returned;
\* the worker goes on to forecaster.load() (app.py 185).
train_l97(j) ==
    /\ wpc[j] = "l97"
    /\ is_demo_mode' = FALSE
    /\ wpc' = [wpc EXCEPT ![j] = "l107"]
    /\ UNCHANGED <<forecaster_none, MODEL_IMPORT_ERROR, model, scaler>>
    /\ UNCHANGED <<dvars, lvars, training_state, clock, rvars, pvars, ovars>>
    /\ UNCHANGED <<wrows, wexc, wload>>

\* The whole of LSTMForecaster.train, one statement at a time.
forecaster_train(j) ==
    \/ train_l62(j)
    \/ train_l65(j)
    \/ train_l83(j)
    \/ train_l85(j)
    \/ train_l85_raises(j)
    \/ train_l95(j)
    \/ train_l95_raises(j)
    \/ train_l96(j)
    \/ train_l96_raises(j)
    \/ train_l97(j)

(* --------------- _train_worker, after train and load ------------------ *)

\* Steps of job j that write training_state only.
WorkerStateFrame ==
    UNCHANGED <<fvars, dvars, lvars, clock, rvars, pvars, ovars>>

\* app.py 186-190: last_result = {metrics, rows_used, mode}.
train_worker_l186(j) ==
    /\ wpc[j] = "l186"
    /\ training_state' =
          [training_state EXCEPT !.last_result =
              [metrics |-> "metrics", rows_used |-> wrows[j],
               mode |-> ModeName(is_demo_mode)]]
    /\ wpc' = [wpc EXCEPT ![j] = "l191"]
    /\ UNCHANGED <<wrows, wexc, wload>>
    /\ WorkerStateFrame

\* app.py 191: last_error = None.
train_worker_l191(j) ==
    /\ wpc[j] = "l191"
    /\ training_state' = [training_state EXCEPT !.last_error = "None"]
    /\ wpc' = [wpc EXCEPT ![j] = "l196"]
    /\ UNCHANGED <<wrows, wexc, wload>>
    /\ WorkerStateFrame

\* Mutation: the handler swallows the exception without recording it.
train_worker_l193_swallows(j) ==
    /\ wpc[j] = "l193"
    /\ wpc' = [wpc EXCEPT ![j] = "l196"]
    /\ UNCHANGED <<wrows, wexc, wload>>
    /\ UNCHANGED <<fvars, dvars, lvars, training_state, clock, rvars, pvars, ovars>>

\* app.py 192-193: except Exception: last_error = str(exc).
train_worker_l193(j) ==
    /\ wpc[j] = "l193"
    /\ training_state' = [training_state EXCEPT !.last_error = wexc[j]]
    /\ wpc' = [wpc EXCEPT ![j] = "l194"]
    /\ UNCHANGED <<wrows, wexc, wload>>
    /\ WorkerStateFrame

\* app.py 194: last_result = None.
train_worker_l194(j) ==
    /\ wpc[j] = "l194"
    /\ training_state' = [training_state EXCEPT !.last_result = NoResult]
    /\ wpc' = [wpc EXCEPT ![j] = "l196"]
    /\ UNCHANGED <<wrows, wexc, wload>>
    /\ WorkerStateFrame

\* Mutation: the finally block releases the lock first and writes running
\* and finished_at afterwards.
train_worker_l196_releases_first(j) ==
    /\ wpc[j] = "l196"
    /\ training_lock' = FALSE
    /\ released' = [released EXCEPT ![j] = @ + 1]
    /\ wpc' = [wpc EXCEPT ![j] = "l197"]
    /\ UNCHANGED <<acq, release_error, wrows, wexc, wload>>
    /\ UNCHANGED <<fvars, dvars, training_state, clock, rvars, pvars, ovars>>

\* A variant of app.py 196 in which the finally block leaves running as it
\* is.
train_worker_l196_keeps_running(j) ==
    /\ wpc[j] = "l196"
    /\ wpc' = [wpc EXCEPT ![j] = "l197"]
    /\ UNCHANGED <<training_state, wrows, wexc, wload>>
    /\ WorkerStateFrame

\* app.py 195-196: finally: running = False.
train_worker_l196(j) ==
    /\ wpc[j] = "l196"
    /\ training_state' = [training_state EXCEPT !.running = FALSE]
    /\ wpc' = [wpc EXCEPT ![j] = "l197"]
    /\ UNCHANGED <<wrows, wexc, wload>>
    /\ WorkerStateFrame

\* app.py 197: finished_at = utcnow().
train_worker_l197(j) ==
    /\ wpc[j] = "l197"
    /\ clock' = clock + 1
    /\ training_state' = [training_state EXCEPT !.finished_at = clock + 1]
    /\ wpc' = [wpc EXCEPT ![j] = "l198"]
    /\ UNCHANGED <<wrows, wexc, wload>>
    /\ UNCHANGED <<fvars, dvars, lvars, rvars, pvars, ovars>>

\* app.py 198: training_lock.release(); the thread ends.  release() on an
\* unlocked lock raises RuntimeError.
train_worker_l198(j) ==
    /\ wpc[j] = "l198"
    /\ IF training_lock
       THEN /\ training_lock' = FALSE
            /\ released' = [released EXCEPT ![j] = @ + 1]
            /\ UNCHANGED release_error
       ELSE /\ release_error' = TRUE
            /\ UNCHANGED <<training_lock, released>>
    /\ wpc' = [wpc EXCEPT ![j] = "done"]
    /\ wrows' = [wrows EXCEPT ![j] = 0]
    /\ wexc' = [wexc EXCEPT ![j] = "None"]
    /\ wload' = [wload EXCEPT ![j] = "none"]
    /\ UNCHANGED acq
    /\ UNCHANGED <<fvars, dvars, training_state, clock, rvars, pvars, ovars>>

\* The whole of _train_worker for the thread of job j.
train_worker(j) ==
    \/ train_worker_l183(j)
    \/ train_worker_l183_raises(j)
    \/ forecaster_train(j)
    \/ load(j)
    \/ train_worker_l186(j)
    \/ train_worker_l191(j)
    \/ train_worker_l193(j)
    \/ train_worker_l194(j)
    \/ train_worker_l196(j)
    \/ train_worker_l197(j)
    \/ train_worker_l198(j)

(* ----- predict (app.py 154-171) and LSTMForecaster.predict (137-177) -- *)

\* Kinds of body of a predict request: a single seed reading; a "sequence"
\* that is the empty list; a sequence shorter than sequence_length; one of
\* at least sequence_length readings; one holding a reading that lacks a
\* required field.
PredictPayloads == {"seed", "seq_empty", "seq_short", "seq_full", "seq_badrow"}

\* app.py 63-72, _payload_to_sequence: a non-empty list is returned as it
\* is; anything else becomes sequence_length copies of the seed reading.
payload_to_sequence(kind) ==
    IF kind \in {"seq_short", "seq_full", "seq_badrow"} THEN kind ELSE "seq_full"

\* app.py 47: the default of _demo_predict's `steps`, which predict leaves
\* at its default.
DemoPredictSteps == 3

\* Steps of a predict thread, which writes nothing but its own locals.
PredictFrame ==
    UNCHANGED <<fvars, dvars, lvars, training_state, clock, rvars, wvars,
                ovars>>

\* app.py 154-157: a POST /predict enters predict.
predict(p) ==
    /\ Serving
    /\ ppc[p] = "idle"
    /\ \E k \in PredictPayloads :
           /\ ppayload' = [ppayload EXCEPT ![p] = k]
           /\ pkind' = [pkind EXCEPT ![p] = k]
    /\ ppc' = [ppc EXCEPT ![p] = "l159"]
    /\ UNCHANGED <<pmodel, pscaler, pscaler2, presp, pcount>>
    /\ PredictFrame

\* app.py 159-168: without a forecaster the app-level _demo_predict answers;
\* otherwise the sequence is derived and forecaster.predict entered.
predict_l159(p) ==
    /\ ppc[p] = "l159"
    /\ IF forecaster_none
       THEN /\ ppc' = [ppc EXCEPT ![p] = "done"]
            /\ presp' = [presp EXCEPT ![p] = "demo"]
            /\ pcount' = [pcount EXCEPT ![p] = DemoPredictSteps]
            /\ UNCHANGED pkind
       ELSE /\ ppc' = [ppc EXCEPT ![p] = "l139"]
            /\ pkind' = [pkind EXCEPT ![p] = payload_to_sequence(pkind[p])]
            /\ UNCHANGED <<presp, pcount>>
    /\ UNCHANGED <<ppayload, pmodel, pscaler, pscaler2>>
    /\ PredictFrame

\* model.py 139-145: the sequence is not empty here; building `points`
\* raises KeyError on a reading without a required field (app.py 170-171
\* answers 500).
predict_l139(p) ==
    /\ ppc[p] = "l139"
    /\ IF pkind[p] = "seq_badrow"
       THEN /\ ppc' = [ppc EXCEPT ![p] = "done"]
            /\ presp' = [presp EXCEPT ![p] = "500"]
            /\ pcount' = [pcount EXCEPT ![p] = 0]
       ELSE /\ ppc' = [ppc EXCEPT ![p] = "l147"]
            /\ UNCHANGED <<presp, pcount>>
    /\ UNCHANGED <<ppayload, pkind, pmodel, pscaler, pscaler2>>
    /\ PredictFrame

\* model.py 147, first operand: self.model is None -> _demo_prediction.
predict_l147_model(p) ==
    /\ ppc[p] = "l147"
    /\ IF model = NoModel
       THEN /\ ppc' = [ppc EXCEPT ![p] = "done"]
            /\ presp' = [presp EXCEPT ![p] = "demo"]
            /\ pcount' = [pcount EXCEPT ![p] = forecast_steps]
       ELSE /\ ppc' = [ppc EXCEPT ![p] = "l147b"]
            /\ UNCHANGED <<presp, pcount>>
    /\ UNCHANGED <<ppayload, pkind, pmodel, pscaler, pscaler2>>
    /\ PredictFrame

\* model.py 147, second operand: self.is_demo_mode -> _demo_prediction.
predict_l147_demo(p) ==
    /\ ppc[p] = "l147b"
    /\ IF is_demo_mode
       THEN /\ ppc' = [ppc EXCEPT ![p] = "done"]
            /\ presp' = [presp EXCEPT ![p] = "demo"]
            /\ pcount' = [pcount EXCEPT ![p] = forecast_steps]
       ELSE /\ ppc' = [ppc EXCEPT ![p] = "l150"]
            /\ UNCHANGED <<presp, pcount>>
    /\ UNCHANGED <<ppayload, pkind, pmodel, pscaler, pscaler2>>
    /\ PredictFrame

\* A variant of model.py 150-151 in which a short sequence is handed to
\* _demo_prediction instead of raising.
predict_l150_falls_back(p) ==
    /\ ppc[p] = "l150"
    /\ IF pkind[p] = "seq_short"
       THEN /\ ppc' = [ppc EXCEPT ![p] = "done"]
            /\ presp' = [presp EXCEPT ![p] = "demo"]
            /\ pcount' = [pcount EXCEPT ![p] = forecast_steps]
       ELSE /\ ppc' = [ppc EXCEPT ![p] = "l154"]
            /\ UNCHANGED <<presp, pcount>>
    /\ UNCHANGED <<ppayload, pkind, pmodel, pscaler, pscaler2>>
    /\ PredictFrame

\* model.py 150-151: a short sequence raises ValueError on the model path.
predict_l150(p) ==
    /\ ppc[p] = "l150"
    /\ IF pkind[p] = "seq_short"
       THEN /\ ppc' = [ppc EXCEPT ![p] = "done"]
            /\ presp' = [presp EXCEPT ![p] = "500"]
            /\ pcount' = [pcount EXCEPT ![p] = 0]
       ELSE /\ ppc' = [ppc EXCEPT ![p] = "l154"]
            /\ UNCHANGED <<presp, pcount>>
    /\ UNCHANGED <<ppayload, pkind, pmodel, pscaler, pscaler2>>
    /\ PredictFrame

\* model.py 153-155: self.scaler.transform(seq); an unfitted scaler raises.
predict_l154(p) ==
    /\ ppc[p] = "l154"
    /\ IF scaler = -1
       THEN /\ ppc' = [ppc EXCEPT ![p] = "done"]
            /\ presp' = [presp EXCEPT ![p] = "500"]
            /\ pcount' = [pcount EXCEPT ![p] = 0]
            /\ UNCHANGED pscaler
       ELSE /\ ppc' = [ppc EXCEPT ![p] = "l156"]
            /\ pscaler' = [pscaler EXCEPT ![p] = scaler]
            /\ UNCHANGED <<presp, pcount>>
    /\ UNCHANGED <<ppayload, pkind, pmodel, pscaler2>>
    /\ PredictFrame

\* model.py 156-157: self.model.predict(x_input); a model set to None in
\* the meantime raises AttributeError.
predict_l156(p) ==
    /\ ppc[p] = "l156"
    /\ IF model = NoModel
       THEN /\ ppc' = [ppc EXCEPT ![p] = "done"]
            /\ presp' = [presp EXCEPT ![p] = "500"]
            /\ pcount' = [pcount EXCEPT ![p] = 0]
            /\ UNCHANGED pmodel
       ELSE /\ ppc' = [ppc EXCEPT ![p] = "l158"]
            /\ pmodel' = [pmodel EXCEPT ![p] = model]
            /\ UNCHANGED <<presp, pcount>>
    /\ UNCHANGED <<ppayload, pkind, pscaler, pscaler2>>
    /\ PredictFrame

\* model.py 158-177: self.scaler.inverse_transform(y_scaled) and the
\* result tagged mode=model.
predict_l158(p) ==
    /\ ppc[p] = "l158"
    /\ IF scaler = -1
       THEN /\ presp' = [presp EXCEPT ![p] = "500"]
            /\ pcount' = [pcount EXCEPT ![p] = 0]
            /\ UNCHANGED pscaler2
       ELSE /\ presp' = [presp EXCEPT ![p] = "model"]
            /\ pcount' = [pcount EXCEPT ![p] = forecast_steps]
            /\ pscaler2' = [pscaler2 EXCEPT ![p] = scaler]
    /\ ppc' = [ppc EXCEPT ![p] = "done"]
    /\ UNCHANGED <<ppayload, pkind, pmodel, pscaler>>
    /\ PredictFrame

\* The response has been sent; the request thread serves the next request.
predict_returns(p) ==
    /\ ppc[p] = "done"
    /\ ppc' = [ppc EXCEPT ![p] = "idle"]
    /\ ppayload' = [ppayload EXCEPT ![p] = "none"]
    /\ pkind' = [pkind EXCEPT ![p] = "none"]
    /\ pmodel' = [pmodel EXCEPT ![p] = NoModel]
    /\ pscaler' = [pscaler EXCEPT ![p] = -1]
    /\ pscaler2' = [pscaler2 EXCEPT ![p] = -1]
    /\ presp' = [presp EXCEPT ![p] = "none"]
    /\ pcount' = [pcount EXCEPT ![p] = 0]
    /\ PredictFrame


(* ------------------ train_status (app.py 237-239) --------------------- *)

\* GET /train/status answers with training_state as it is when read.
train_status ==
    /\ Serving
    /\ status_response' = [sent |-> TRUE, data |-> training_state]
    /\ UNCHANGED <<fvars, dvars, lvars, training_state, clock, rvars, wvars,
                   pvars, hvars, prep, demo>>

(* ---------------------- health (app.py 108-125) ----------------------- *)

\* Steps of the health thread, which writes nothing but its own locals.
HealthFrame ==
    UNCHANGED <<fvars, dvars, lvars, training_state, clock, rvars, wvars,
                pvars, svars, prep, demo>>

\* app.py 110-114: mode and model_loaded start as "demo" and False; with a
\* forecaster, mode is read from forecaster.is_demo_mode.
health ==
    /\ Serving
    /\ hpc = "idle"
    /\ IF forecaster_none
       THEN /\ hpc' = "done"
            /\ hmode' = "demo"
       ELSE /\ hpc' = "l115"
            /\ hmode' = ModeName(is_demo_mode)
    /\ hloaded' = FALSE
    /\ HealthFrame

\* app.py 115: model_loaded = forecaster.model is not None.
health_l115 ==
    /\ hpc = "l115"
    /\ hloaded' = (model # NoModel)
    /\ hpc' = "done"
    /\ UNCHANGED hmode
    /\ HealthFrame

\* app.py 117-125: the response has been sent.
health_returns ==
    /\ hpc = "done"
    /\ hpc' = "idle"
    /\ hmode' = "none"
    /\ hloaded' = FALSE
    /\ HealthFrame


(* --- training data path (app.py 75-105, 182-184; model.py 60-78) ------ *)

\* Window configurations: the small ones, the default sequence_length and
\* one so long that minimum_required + 20 exceeds the synthetic floor.
SeqLenChoices == (1 .. MaxSeqLen) \cup {sequence_length, SyntheticFloor}
ForecastChoices == 1 .. MaxForecast

\* app.py 182: minimum_required = sequence_length + forecast_steps + 20.
MinimumRequired(seq, fc) == seq + fc + TrainMargin

\* Contents of the measurements file: no file; a file that is not JSON; a
\* JSON value that is not a list; a list.
DataFiles == {"absent", "not_json", "not_list", "list"}

\* Numbers of list items that convert to a row (the others are skipped at
\* app.py 92-93): the small ones and those around minimum_required.
ValidRowChoices(seq, fc) ==
    (0 .. MaxRows) \cup {MinimumRequired(seq, fc) - 1,
                         MinimumRequired(seq, fc),
                         MinimumRequired(seq, fc) + 1}

\* app.py 79-93: len(rows) once the file has been read.
RowsRead(file, valid) == IF file = "list" THEN valid ELSE 0

\* app.py 95-105: which matrix _load_training_matrix returns.
LoadTrainingMatrixSource(rows, minimum_required) ==
    IF rows >= minimum_required THEN "stored" ELSE "synthetic"

\* The inputs of the training data path.
PrepInputs ==
    {[pc |-> "start", file |-> f, valid |-> v, seq |-> a, fc |-> b,
      source |-> "none", T |-> 0, idx |-> 0, pairs |-> 0,
      error |-> "None"] :
        f \in DataFiles, v \in 0 .. 0, a \in SeqLenChoices,
        b \in ForecastChoices}
    \cup
    UNION {{[pc |-> "start", file |-> "list", valid |-> v, seq |-> a,
             fc |-> b, source |-> "none", T |-> 0, idx |-> 0,
             pairs |-> 0, error |-> "None"] : v \in ValidRowChoices(a, b)} :
           a \in SeqLenChoices, b \in ForecastChoices}

InitData ==
    /\ InitService
    /\ model_file = -1
    /\ scaler_file = -1
    /\ prep \in PrepInputs
    /\ demo = NoDemo

\* Steps of the training data path, which touch nothing of the service.
DataFrame ==
    UNCHANGED <<fvars, dvars, lvars, training_state, clock, rvars, wvars,
                pvars, svars, hvars, demo>>

\* app.py 182-183: the worker computes minimum_required and calls
\* _load_training_matrix; json.load (app.py 81) raises on a file that is
\* not JSON, and the worker's except clause takes over.
data_load_training_matrix ==
    /\ prep.pc = "start"
    /\ IF prep.file = "not_json"
       THEN prep' = [prep EXCEPT !.pc = "done", !.error = "JSONDecodeError"]
       ELSE LET rows == RowsRead(prep.file, prep.valid)
                minimum_required == MinimumRequired(prep.seq, prep.fc)
            IN  prep' = [prep EXCEPT
                    !.pc = "l62",
                    !.source = LoadTrainingMatrixSource(rows, minimum_required),
                    !.T = LoadTrainingMatrixLen(rows, minimum_required)]
    /\ DataFrame

\* _prepare_training_data called on a matrix of prep.valid rows that does
\* not come from _load_training_matrix.
data_matrix_given ==
    /\ prep.pc = "start"
    /\ prep.file = "list"
    /\ prep' = [prep EXCEPT !.pc = "l62", !.source = "given", !.T = prep.valid]
    /\ DataFrame

\* model.py 62-63: the guard of _prepare_training_data (called at
\* model.py 82) on a matrix of prep.T rows.
data_prepare_l62 ==
    /\ prep.pc = "l62"
    /\ IF prep.T <= prep.seq + prep.fc
       THEN prep' = [prep EXCEPT
                !.pc = "done",
                !.error = "Insufficient rows for training windows."]
       ELSE prep' = [prep EXCEPT !.pc = "l72"]
    /\ DataFrame

\* model.py 72-76: one pass of `for idx in range(len(scaled) - seq -
\* horizon + 1)`, which appends one window pair.
data_prepare_l72 ==
    /\ prep.pc = "l72"
    /\ prep.idx < prep.T - prep.seq - prep.fc + 1
    /\ prep' = [prep EXCEPT !.idx = @ + 1, !.pairs = @ + 1]
    /\ DataFrame

\* model.py 78: the loop is exhausted and the pairs are returned.
data_prepare_l78 ==
    /\ prep.pc = "l72"
    /\ ~(prep.idx < prep.T - prep.seq - prep.fc + 1)
    /\ prep' = [prep EXCEPT !.pc = "done"]
    /\ DataFrame


(* --- demo generators (app.py 47-60, model.py 120-135) ----------------- *)

\* Readings produced by the generators are held in thousandths, so that the
\* relative factors of app.py 50-52 and the 1.2 of model.py 129 are exact.
Scale == 1000

\* The physical bounds of a reading (model.py 128-130).
TdsMin == 0
TdsMax == 5000
TemperatureMin == -20
TemperatureMax == 60
MoistureMin == 0
MoistureMax == 1000

\* Seed readings: the ends of the physical bounds, the defaults of app.py
\* 67-69 and a low value of each field.
SeedChoices ==
    {Reading(t, c, m) : t \in {TdsMin, 100, TdsMax},
                        c \in {TemperatureMin, 0, 25, TemperatureMax},
                        m \in {MoistureMin, 350, MoistureMax}}

\* random.uniform(-a, a), in steps of a / DrawSteps.
Uniform(a) == {(a * d) \div DrawSteps : d \in (0 - DrawSteps) .. DrawSteps}

Min(a, b) == IF a <= b THEN a ELSE b

\* max(lo, min(hi, x)) on a value in thousandths.
Clamp(lo, hi, x) == Max(lo * Scale, Min(hi * Scale, x))

\* app.py 50-52: seed[field] * (1 + random.uniform(-f, f)), with the
\* factor u in thousandths; nothing is clamped.
RelativePerturbation(seed, u) == seed * (Scale + u)

\* model.py 128-130: max(lo, min(hi, latest + random.uniform(-a, a))), with
\* the offset d in thousandths.
ClampedPerturbation(lo, hi, latest, d) == Clamp(lo, hi, latest * Scale + d)

\* The inputs of the demo generators.
DemoInputs ==
    {[pc |-> "start", seed |-> sd, n |-> 0, reading |-> Reading(0, 0, 0)] :
        sd \in SeedChoices}

InitDemo ==
    /\ InitService
    /\ model_file = -1
    /\ scaler_file = -1
    /\ prep = NoPrep
    /\ demo \in DemoInputs

\* Steps of a demo generator, which touch nothing of the service.
DemoFrame ==
    UNCHANGED <<fvars, dvars, lvars, training_state, clock, rvars, wvars,
                pvars, svars, hvars, prep>>

\* app.py 47-55, _demo_predict(seed): one pass of `for _ in range(steps)`
\* with steps at its default.
demo_predict ==
    /\ demo.pc \in {"start", "app"}
    /\ demo.n < DemoPredictSteps
    /\ \E ut \in Uniform(100), uc \in Uniform(50), um \in Uniform(100) :
          demo' = [demo EXCEPT
              !.pc = "app",
              !.n = @ + 1,
              !.reading =
                  Reading(RelativePerturbation(demo.seed.tds, ut),
                          RelativePerturbation(demo.seed.temperature, uc),
                          RelativePerturbation(demo.seed.moisture, um))]
    /\ DemoFrame

\* model.py 120-132, _demo_prediction(sequence) with latest = sequence[-1]
\* the seed: one pass of `for _ in range(self.config.forecast_steps)`.
demo_prediction ==
    /\ demo.pc \in {"start", "forecaster"}
    /\ demo.n < forecast_steps
    /\ \E dt \in Uniform(30 * Scale), dc \in Uniform(1200),
          dm \in Uniform(20 * Scale) :
          demo' = [demo EXCEPT
              !.pc = "forecaster",
              !.n = @ + 1,
              !.reading =
                  Reading(ClampedPerturbation(TdsMin, TdsMax,
                                              demo.seed.tds, dt),
                          ClampedPerturbation(TemperatureMin, TemperatureMax,
                                              demo.seed.temperature, dc),
                          ClampedPerturbation(MoistureMin, MoistureMax,
                                              demo.seed.moisture, dm))]
    /\ DemoFrame

\* app.py 56-59, model.py 134-135: the predictions are returned.
demo_returns ==
    /\ \/ demo.pc = "app" /\ demo.n = DemoPredictSteps
       \/ demo.pc = "forecaster" /\ demo.n = forecast_steps
    /\ demo' = [demo EXCEPT !.pc = "done_" \o demo.pc]
    /\ DemoFrame


(* ------------------------- derived notions ---------------------------- *)

\* Positions of train_start between the acquisition of training_lock and
\* the launch of the worker.
LaunchingPcs == {"l215", "l219", "l220", "l221", "l222", "l223", "l225"}

\* The worker thread of job j exists and has not ended.
WorkerActive(j) == wpc[j] \notin {"none", "done"}

ActiveWorkers == {j \in Jobs \ {0} : WorkerActive(j)}

LaunchingRequests == {r \in Reqs : rpc[r] \in LaunchingPcs}

\* The run that began with acquisition j has neither been abandoned by its
\* request nor finished by its worker.
JobInProgress(j) ==
    \/ \E r \in Reqs : rpc[r] \in LaunchingPcs /\ rjob[r] = j
    \/ WorkerActive(j)

(* ------------------------------ claims -------------------------------- *)

\* C1: single-flight.  In every reachable state at most one training run is
\* in progress: the requests that hold the slot and have not yet launched
\* their worker, and the worker threads that have not ended, number at most
\* one altogether, whatever the interleaving of /train/start, /train and
\* the workers.
C1_SingleFlight ==
    Cardinality(ActiveWorkers) + Cardinality(LaunchingRequests) <= 1

\* C1 witness: a worker is running while another start request has been
\* turned away with 409.
C1_Witness ==
    /\ ActiveWorkers # {}
    /\ \E r \in Reqs : rpc[r] = "done" /\ rresp[r] = 409

\* C2: two start() calls racing for the free slot.  Of two finished start
\* requests that contended for the same acquisition of the slot, exactly
\* one was accepted (200) and the other received 409; and a start that
\* tries the slot while no run is in progress (none was ever started, or
\* the accepted job has completed) is not turned away with 409.
C2_RacingStarts ==
    /\ [](\A r1, r2 \in Reqs :
            (/\ r1 # r2
             /\ rpc[r1] = "done" /\ rpc[r2] = "done"
             /\ rjob[r1] # 0 /\ rjob[r1] = rjob[r2]
             /\ rresp[r1] # 409 \/ rresp[r2] # 409)
            => \/ rresp[r1] = 200 /\ rresp[r2] = 409
               \/ rresp[r1] = 409 /\ rresp[r2] = 200)
    /\ [][\A r \in Reqs :
            (/\ rpc[r] = "l212" /\ rpc'[r] # "l212"
             /\ ActiveWorkers = {} /\ LaunchingRequests = {})
            => rresp'[r] # 409]_vars

\* C3: every acquisition of the slot is followed by its release and by the
\* job state returning to idle.  Stated on the states where nothing is left
\* to do for any run (no request between acquisition and launch, no worker
\* alive): there the slot is free, running is false and, once a slot has
\* been acquired, finished_at is set.  No later step can release the slot
\* for a run that has nothing left to do, so a state violating this never
\* recovers.
C3_SlotReleasedWhenQuiescent ==
    (ActiveWorkers = {} /\ LaunchingRequests = {})
    => /\ ~training_lock
       /\ ~training_state.running
       /\ (acq > 0 => training_state.finished_at # 0)

\* C4: the slot is released exactly once per acquisition, by the worker of
\* that acquisition.  While the run of acquisition j is in progress no
\* release has been made for it; once it is over exactly one has; and
\* release is never called on a slot that is not held.
C4_ReleasedExactlyOnce ==
    /\ ~release_error
    /\ \A j \in 1 .. acq :
          IF JobInProgress(j) THEN released[j] = 0 ELSE released[j] = 1

\* C5: a start() rejected with 409 changes no field of training_state,
\* launches no worker and leaves the slot as it was; and a worker thread
\* comes into existence only in the step in which the request that acquired
\* its slot is accepted (nothing is queued for later).
C5_RejectedStartFrame ==
    [][ /\ \A r \in Reqs :
             (rpc[r] = "l212" /\ rresp'[r] = 409)
             => /\ training_state' = training_state
                /\ wpc' = wpc
                /\ training_lock' = training_lock
                /\ acq' = acq
        /\ \A j \in Jobs \ {0} :
             (wpc[j] = "none" /\ wpc'[j] # "none")
             => \E r \in Reqs :
                   rpc[r] = "l225" /\ rjob[r] = j /\ rresp'[r] = 200
      ]_vars

\* C5 witness: a request has been rejected with 409 while the job state
\* showed a run in progress (running = true, started_at set).
C5_Witness ==
    \E r \in Reqs :
       /\ rpc[r] = "done" /\ rresp[r] = 409
       /\ training_state.running
       /\ training_state.started_at # 0

\* Positions of a worker after its try / except and before its thread ends
\* (the finally block, app.py 195-198).
FinallyPcs == {"l196", "l197", "l198"}

\* C6: when a training job completes (its worker is in the finally block),
\* exactly one of last_error / last_result is populated: after a failure of
\* any step last_error is the error message and last_result is empty, after
\* success last_result is {metrics, rows_used, mode} and last_error is
\* empty.  An exception under way is always inside the worker's handler or
\* finally block: it never leaves the worker.
C6_OutcomeXor ==
    \A j \in Jobs \ {0} :
       /\ wexc[j] # "None" => wpc[j] \in {"l193", "l194"} \cup FinallyPcs
       /\ wpc[j] \in FinallyPcs =>
             IF wexc[j] # "None"
             THEN /\ training_state.last_error = wexc[j]
                  /\ training_state.last_result = NoResult
             ELSE /\ training_state.last_error = "None"
                  /\ training_state.last_result # NoResult
                  /\ training_state.last_result.metrics = "metrics"
                  /\ training_state.last_result.rows_used = wrows[j]
                  /\ training_state.last_result.mode \in {"demo", "model"}

\* C6 witness: a job whose training succeeded but whose refresh failed
\* (joblib.load raised) is completing with last_error set and last_result
\* empty.
C6_Witness ==
    \E j \in Jobs \ {0} :
       /\ wpc[j] = "l198"
       /\ wexc[j] = "joblib.load"
       /\ training_state.last_error = "joblib.load"
       /\ training_state.last_result = NoResult

\* C7: the completing worker's final writes all happen before the slot is
\* released.  While a worker has not ended, the slot is held for its own
\* acquisition, which is the latest one, and no request is past the
\* acquisition; while a request is between acquisition and launch, the
\* slot is held for it and no worker is alive.  Hence the fields written on
\* acceptance stay as written while the accepted job runs: running = true
\* and finished_at empty until the job's own finally block, last_error and
\* last_result empty until the job's own outcome is written.
C7_FinalWritesBeforeRelease ==
    /\ \A j \in Jobs \ {0} :
          WorkerActive(j) =>
             /\ training_lock /\ acq = j /\ released[j] = 0
             /\ LaunchingRequests = {}
             /\ wpc[j] \notin {"l197", "l198"} => training_state.running
             /\ wpc[j] # "l198" => training_state.finished_at = 0
             /\ wpc[j] \notin {"l191", "l194"} \cup FinallyPcs =>
                   /\ training_state.last_error = "None"
                   /\ training_state.last_result = NoResult
    /\ \A r \in Reqs :
          rpc[r] \in LaunchingPcs =>
             /\ training_lock /\ rjob[r] = acq
             /\ ActiveWorkers = {}

\* C7 witness: the first job has ended and released the slot, and the
\* worker of the second accepted job is training with its fields intact.
C7_Witness ==
    /\ wpc[1] = "done"
    /\ released[1] = 1
    /\ wpc[2] = "l85"
    /\ training_state.running
    /\ training_state.last_error = "None"

\* Positions of a worker from its start to the last statement of the
\* load() it calls after train(): the post-training refresh has not
\* completed.
BeforeRefreshPcs ==
    {"l182", "l62", "l65", "l83", "l85", "l95", "l96", "l97",
     "l107", "l111", "l112", "l113", "l116", "l117"}

\* The bootstrap ended in demo mode.
BootedInDemo == Serving /\ wload[0] # "ok"

\* C8: starting from demo mode, no prediction observes mode=model as a
\* result of a training run before that run's post-training load() has
\* completed: a prediction answered with mode=model from the network of
\* training job j is never answered while job j is still before the end of
\* its refresh.
C8_NoModelModeBeforeRefresh ==
    BootedInDemo =>
       \A p \in Preds :
          (ppc[p] = "done" /\ presp[p] = "model") =>
             \A j \in Jobs \ {0} :
                pmodel[p].gen = j => wpc[j] \notin BeforeRefreshPcs

\* C9: every model-path prediction uses a model and a scaler of the same
\* completed training generation: the network it ran is trained, and the
\* scaler that scaled its input and the scaler that unscaled its output
\* are those fitted with that network.
C9_SameGeneration ==
    \A p \in Preds :
       (ppc[p] = "done" /\ presp[p] = "model") =>
          /\ pmodel[p].trained
          /\ pscaler[p] = pmodel[p].gen
          /\ pscaler2[p] = pmodel[p].gen

\* A call of load() by job j has ended (by return or by exception) and
\* nothing has written the forecaster since.
AfterLoad(j) ==
    /\ wload[j] \in {"ok", "absent", "model_failed", "scaler_failed"}
    /\ j = 0 => Serving /\ \A k \in Jobs \ {0} : wpc[k] = "none"

\* C10: after any load(), the service is in model mode if and only if both
\* artifacts existed and both loaded without error; in every other case
\* is_demo_mode is true and no model reference is retained.
C10_RefreshOutcome ==
    \A j \in Jobs :
       (~forecaster_none /\ AfterLoad(j)) =>
          /\ ~is_demo_mode <=> wload[j] = "ok"
          /\ wload[j] # "ok" => model = NoModel

(* ------------------------------- C11 ---------------------------------- *)

\* The predict thread p holds a non-empty sequence of valid readings that
\* is shorter than sequence_length.
ShortSequence(p) == pkind[p] = "seq_short"

C11_ShortSequenceAnswer(p) ==
    (ShortSequence(p) /\ ppc[p] \in {"l147", "l147b", "l150"}
                      /\ ppc'[p] = "done") =>
        \/ /\ \/ ppc[p] = "l147" /\ model = NoModel
              \/ ppc[p] = "l147b" /\ is_demo_mode
           /\ presp'[p] = "demo"
           /\ pcount'[p] = forecast_steps
        \/ /\ ppc[p] = "l150"
           /\ presp'[p] = "500"
           /\ pcount'[p] = 0

InvalidSequencePayloads == {"seq_empty", "seq_badrow"}

\* Positions inside LSTMForecaster.predict (model.py 137-177).
ForecasterPredictPcs ==
    {"l139", "l147", "l147b", "l150", "l154", "l156", "l158"}

\* The HTTP status class of an outcome of predict (app.py 168-171): a
\* forecast is answered 200 and every exception 500.
StatusClass(resp) ==
    CASE resp \in {"demo", "model"} -> "success"
      [] resp = "500" -> "server_error"
      [] OTHER -> "none"

\* C12: a predict request whose sequence is empty or holds a reading
\* without a required field is answered with a client error; it is never
\* answered with a forecast and never reaches the forecaster.
C12_InvalidSequenceRejected ==
    \A p \in Preds :
        ppayload[p] \in InvalidSequencePayloads =>
            /\ ppc[p] \notin ForecasterPredictPcs
            /\ ppc[p] = "done" => StatusClass(presp[p]) = "client_error"

(* ------------------------------- C13 ---------------------------------- *)

\* C13: on a matrix of T rows _prepare_training_data yields exactly
\* max(0, T - sequence_length - forecast_steps + 1) window pairs, and it
\* raises the insufficient-data error exactly when that number is not
\* positive; a matrix of sequence_length + forecast_steps rows yields one
\* pair.
C13_WindowCount ==
    (prep.pc = "done" /\ prep.source # "none") =>
        LET n == Max(0, prep.T - prep.seq - prep.fc + 1)
        IN  /\ prep.pairs = n
            /\ (prep.error # "None") <=> (n <= 0)

(* ------------------------------- C14 ---------------------------------- *)

\* C14: every snapshot returned by GET /train/status is consistent: while
\* running is true, last_error, last_result and finished_at are all empty;
\* when running is false after a job has been accepted (started_at is
\* set), finished_at is set and the outcome (last_result or last_error) is
\* populated.
C14_StatusConsistent ==
    status_response.sent =>
        LET d == status_response.data
        IN  /\ d.running =>
                   /\ d.last_error = "None"
                   /\ d.last_result = NoResult
                   /\ d.finished_at = 0
            /\ (~d.running /\ d.started_at # 0) =>
                   /\ d.finished_at # 0
                   /\ d.last_error # "None" \/ d.last_result # NoResult

(* ------------------------------- C15 ---------------------------------- *)

\* str(exc) of the failures of a training run before train() returns: in
\* _load_training_matrix, in the window guard, in fit and in the two saves.
TrainFailures ==
    {"json.load", "Insufficient rows for training windows.", "fit", "save",
     "joblib.dump"}

\* Job j is a training run that has not reached the last statement of
\* train() (model.py 97), or one that is handling a failure of train().
RunBeforeModeWrite(j) ==
    \/ wpc[j] \in {"l182", "l62", "l65", "l83", "l85", "l95", "l96"}
    \/ wexc[j] \in TrainFailures

\* The step is the last statement of a load() that loaded both artifacts.
LoadCompletes(j) ==
    /\ wpc[j] = "l113"
    /\ wload[j] = "started"
    /\ model.trained
    /\ scaler # -1

\* The step is the last statement of the train() of job j, after the fit
\* and both saves of this run.
TrainCompletes(j) ==
    /\ j # 0
    /\ wpc[j] = "l97"
    /\ wexc[j] = "None"
    /\ model = LoadedModel(j)
    /\ scaler = j
    /\ model_file \in {-1, j}
    /\ scaler_file \in {-1, j}

EngineUnavailable == Serving /\ forecaster_none

\* C16: while the engine stack is unavailable, train_start answers 503 in a
\* step that neither takes the training slot nor changes training_state
\* nor starts a worker, so the slot stays free and training_state stays as
\* it was at import; and every predict request is answered with a
\* successful demo forecast.
C16_UnavailableEngine ==
    /\ [](EngineUnavailable =>
            /\ ~training_lock
            /\ acq = 0
            /\ training_state = InitialTrainingState
            /\ \A j \in Jobs \ {0} : wpc[j] = "none"
            /\ \A r \in Reqs : rpc[r] = "done" => rresp[r] = 503
            /\ \A p \in Preds :
                   ppc[p] = "done" =>
                       /\ presp[p] = "demo"
                       /\ StatusClass(presp[p]) = "success"
                       /\ pcount[p] > 0)
    /\ [][\A r \in Reqs :
              (EngineUnavailable /\ rpc[r] = "l203" /\ rpc'[r] # "l203") =>
                  /\ rpc'[r] = "done"
                  /\ rresp'[r] = 503
                  /\ UNCHANGED <<lvars, training_state, wvars>>]_vars

\* With the engine stack unavailable a start request has been answered 503
\* and a predict request has been answered with a demo forecast.
C16_Witness ==
    /\ EngineUnavailable
    /\ \E r \in Reqs : rpc[r] = "done" /\ rresp[r] = 503
    /\ \E p \in Preds : ppc[p] = "done" /\ presp[p] = "demo"

(* ------------------------------- C17 ---------------------------------- *)

Abs(x) == IF x >= 0 THEN x ELSE 0 - x

\* The value v (in thousandths) is within rel thousandths of the seed value
\* s.
WithinRelative(v, s, rel) == Abs(v - s * Scale) <= rel * Abs(s)

\* The value v (in thousandths) lies in [lo, hi].
WithinBounds(v, lo, hi) == lo * Scale <= v /\ v <= hi * Scale

\* C17: every reading of a demo forecast, from _demo_predict as well as
\* from _demo_prediction, differs from the seed by at most 10% in tds, 5%
\* in temperature and 10% in moisture, and lies within tds [0, 5000],
\* temperature [-20, 60] and moisture [0, 1000].
C17_DemoReadingBounded ==
    demo.n > 0 =>
        /\ WithinRelative(demo.reading.tds, demo.seed.tds, 100)
        /\ WithinRelative(demo.reading.temperature, demo.seed.temperature, 50)
        /\ WithinRelative(demo.reading.moisture, demo.seed.moisture, 100)
        /\ WithinBounds(demo.reading.tds, 0, 5000)
        /\ WithinBounds(demo.reading.temperature, -20, 60)
        /\ WithinBounds(demo.reading.moisture, 0, 1000)

(* ------------------------------- C18 ---------------------------------- *)

\* The worker's call of _load_training_matrix (app.py 183) has ended.
WorkerLoadEnded ==
    \/ prep.source \in {"stored", "synthetic"}
    \/ prep.pc = "done" /\ prep.source = "none"

\* C18: whatever the measurements file holds (no file, unreadable content,
\* content that is not a list, a list with any number of valid rows) and
\* whatever sequence_length and forecast_steps are, the worker hands
\* train() a matrix of more than sequence_length + forecast_steps rows, so
\* that the window guard never raises in a job; the stored rows are used
\* exactly when at least sequence_length + forecast_steps + 20 of them are
\* valid, and otherwise a synthetic matrix of max(300, minimum + 20) rows.
C18_TrainingMatrixSufficient ==
    WorkerLoadEnded =>
        LET minimum == prep.seq + prep.fc + 20
            rows == RowsRead(prep.file, prep.valid)
        IN  /\ prep.source \in {"stored", "synthetic"}
            /\ prep.T > prep.seq + prep.fc
            /\ prep.error = "None"
            /\ prep.source = "stored" <=> rows >= minimum
            /\ prep.source = "stored" => prep.T = rows
            /\ prep.source = "synthetic" => prep.T = Max(300, minimum + 20)

(* ------------------------------- C19 ---------------------------------- *)

\* C19: in every reachable state, between any two statements of load(),
\* train() and the request handlers, a forecaster whose demo flag is off
\* holds a model; hence /health never reports mode "model" together with
\* model_loaded false, and a predict request that has passed the demo
\* check finds a model when it calls it.
C19_ModelModeHasModel ==
    /\ (~forecaster_none /\ ~is_demo_mode) => model # NoModel
    /\ hpc = "done" => ~(hmode = "model" /\ ~hloaded)
    /\ \A p \in Preds : ppc[p] \in {"l150", "l154", "l156"} => model # NoModel

(* ------------------------------- C20 ---------------------------------- *)

\* C20: whenever training_state.running is true the training lock is held;
\* running is set only by the request that holds the lock it has just
\* acquired, and the lock is released only once running is false again.
C20_RunningImpliesLockHeld ==
    /\ [](training_state.running => training_lock)
    /\ [][(~training_state.running /\ training_state'.running) =>
              /\ training_lock
              /\ \E r \in Reqs : rpc[r] = "l219" /\ rjob[r] = acq]_vars
    /\ [][(training_lock /\ ~training_lock') =>
              (~training_state.running /\ ~training_state'.running)]_vars

\* A worker has cleared running and has not yet released the lock.
C20_Witness ==
    /\ \E j \in Jobs \ {0} : wpc[j] \in {"l197", "l198"}
    /\ ~training_state.running
    /\ training_lock
    /\ training_state.started_at # 0

(* --------------------------- specification ---------------------------- *)

\* Steps of the module import, before the first request is served.
Bootstrap ==
    \/ bootstrap_import
    \/ bootstrap_import_fails
    \/ load(0)

\* Steps of the request thread r serving /train/start or /train.
StartRequest(r) ==
    \/ train_start(r)
    \/ train(r)
    \/ train_start_l203(r)
    \/ train_start_l212_acquired(r)
    \/ train_start_l212_conflict(r)
    \/ train_start_l215(r)
    \/ train_start_l219(r)
    \/ train_start_l220(r)
    \/ train_start_l221(r)
    \/ train_start_l222(r)
    \/ train_start_l223(r)
    \/ train_start_l225(r)
    \/ train_start_l226_raises(r)
    \/ train_start_returns(r)

\* Steps of the request thread p serving /predict.
PredictRequest(p) ==
    \/ predict(p)
    \/ predict_l159(p)
    \/ predict_l139(p)
    \/ predict_l147_model(p)
    \/ predict_l147_demo(p)
    \/ predict_l150(p)
    \/ predict_l154(p)
    \/ predict_l156(p)
    \/ predict_l158(p)
    \/ predict_returns(p)

\* Steps of the request thread serving /health.
HealthRequest ==
    \/ health
    \/ health_l115
    \/ health_returns

\* The training job coordinator: the bootstrap, the start requests of two
\* request threads and the workers they launch.
NextTrain ==
    \/ Bootstrap
    \/ \E r \in Reqs : StartRequest(r)
    \/ \E j \in Jobs \ {0} : train_worker(j)

SpecTrain == Init /\ [][NextTrain]_vars

\* The serving path: the bootstrap, start requests of one request thread,
\* the workers, the predict requests and the removal of artifacts.
NextServe ==
    \/ Bootstrap
    \/ artifacts_removed
    \/ StartRequest("r1")
    \/ \E j \in Jobs \ {0} : train_worker(j)
    \/ \E p \in Preds : PredictRequest(p)

SpecServe == Init /\ [][NextServe]_vars

\* Predict requests beside the training jobs of one request thread, with
\* the artifacts left alone on disk.
NextPredict ==
    \/ Bootstrap
    \/ StartRequest("r1")
    \/ \E j \in Jobs \ {0} : train_worker(j)
    \/ \E p \in Preds : PredictRequest(p)

SpecPredict == Init /\ [][NextPredict]_vars

\* The training job coordinator observed through /train/status.
NextStatus ==
    \/ NextTrain
    \/ train_status

SpecStatus == Init /\ [][NextStatus]_vars

\* The forecaster's mode: the bootstrap, the training jobs of one request
\* thread, the removal of artifacts and the /health requests.
NextMode ==
    \/ Bootstrap
    \/ artifacts_removed
    \/ StartRequest("r1")
    \/ \E j \in Jobs \ {0} : train_worker(j)
    \/ HealthRequest

SpecMode == Init /\ [][NextMode]_vars

\* The training data path on its own, from every input.
NextData ==
    \/ data_load_training_matrix
    \/ data_matrix_given
    \/ data_prepare_l62
    \/ data_prepare_l72
    \/ data_prepare_l78

SpecData == InitData /\ [][NextData]_vars

\* The demo generators on their own, from every seed.
NextDemo ==
    \/ demo_predict
    \/ demo_prediction
    \/ demo_returns

SpecDemo == InitDemo /\ [][NextDemo]_vars

\* The whole service.
Next ==
    \/ Bootstrap
    \/ artifacts_removed
    \/ \E r \in Reqs : StartRequest(r)
    \/ \E j \in Jobs \ {0} : train_worker(j)
    \/ \E p \in Preds : PredictRequest(p)
    \/ train_status
    \/ HealthRequest

Spec == Init /\ [][Next]_vars

====
